---- MODULE Spec2Model ----
(***************************************************************************)
(* Model of app/core/logging.py: the context-scoped actor tag              *)
(* (_current_user, set_log_user, reset_log_user, _UserContextFilter), the  *)
(* root initialisation (setup_logging) and the per-component rotating file *)
(* handler (get_logger, _ensure_module_handler).                           *)
(*                                                                         *)
(* A Python str is a sequence of one-character strings; None is NoneV.     *)
(* A level is an integer; an attribute of the logging module that is not   *)
(* an integer is NotALevel.                                                *)
(***************************************************************************)
EXTENDS Integers, Sequences, FiniteSets, TLC

(***************************************************************************)
(* Values                                                                  *)
(***************************************************************************)
NoneV == <<"<None>">>
Missing == <<"<MISSING>">>

Dash == <<"-">>
EmptyStr == <<>>
alice == <<"a", "l", "i", "c", "e">>
bob == <<"b", "o", "b">>

appName == <<"a", "p", "p">>
rootName == <<"r", "o", "o", "t">>
dotLog == <<".", "l", "o", "g">>
appLog == <<"a", "p", "p", ".", "l", "o", "g">>
errorLog == <<"e", "r", "r", "o", "r", ".", "l", "o", "g">>
logsDir == <<"l", "o", "g", "s">>
Cwd == <<"/", "c", "w", "d">>

NOTSET == 0
DEBUG == 10
INFO == 20
WARNING == 30
ERROR == 40
CRITICAL == 50
NotALevel == -1

FiveLevels == {DEBUG, INFO, WARNING, ERROR, CRITICAL}

(***************************************************************************)
(* str methods and truthiness                                              *)
(***************************************************************************)
\* x or d
Or(x, d) == IF x = NoneV \/ x = EmptyStr THEN d ELSE x

LowerChars == <<"a", "b", "c", "d", "e", "f", "g", "h", "i", "j", "k", "l", "m",
                "n", "o", "p", "q", "r", "s", "t", "u", "v", "w", "x", "y", "z">>
UpperChars == <<"A", "B", "C", "D", "E", "F", "G", "H", "I", "J", "K", "L", "M",
                "N", "O", "P", "Q", "R", "S", "T", "U", "V", "W", "X", "Y", "Z">>

UpperChar(c) ==
    IF \E i \in 1..Len(LowerChars) : LowerChars[i] = c
    THEN UpperChars[CHOOSE i \in 1..Len(LowerChars) : LowerChars[i] = c]
    ELSE c

\* s.upper()
StrUpper(s) == [i \in 1..Len(s) |-> UpperChar(s[i])]

\* s.replace(old, new) for one-character old and new
Replace(s, old, new) == [i \in 1..Len(s) |-> IF s[i] = old THEN new ELSE s[i]]

\* s.split(sep) for a one-character sep
RECURSIVE SplitAcc(_, _, _, _)
SplitAcc(s, sep, cur, acc) ==
    IF s = <<>> THEN Append(acc, cur)
    ELSE IF Head(s) = sep THEN SplitAcc(Tail(s), sep, <<>>, Append(acc, cur))
    ELSE SplitAcc(Tail(s), sep, Append(cur, Head(s)), acc)

Split(s, sep) == SplitAcc(s, sep, <<>>, <<>>)

\* sep.join(parts)
RECURSIVE Join(_, _)
Join(parts, sep) ==
    IF parts = <<>> THEN <<>>
    ELSE IF Len(parts) = 1 THEN parts[1]
    ELSE parts[1] \o sep \o Join(Tail(parts), sep)

(***************************************************************************)
(* pathlib.Path and os.path.abspath on a POSIX host                        *)
(***************************************************************************)
IsPart(c) == c # <<>> /\ c # <<".">>

\* Path(s): the anchor and the components of s
PathOf(s) ==
    [abs |-> s # <<>> /\ s[1] = "/",
     parts |-> SelectSeq(Split(s, "/"), IsPart)]

\* p / s
PathJoin(p, s) ==
    LET q == PathOf(s)
    IN  IF q.abs THEN q ELSE [abs |-> p.abs, parts |-> p.parts \o q.parts]

\* str(p)
PathStr(p) ==
    IF p.abs THEN <<"/">> \o Join(p.parts, <<"/">>)
    ELSE IF p.parts = <<>> THEN <<".">>
    ELSE Join(p.parts, <<"/">>)

\* os.path.normpath on the components of an absolute path
RECURSIVE NormComps(_, _)
NormComps(comps, acc) ==
    IF comps = <<>> THEN acc
    ELSE LET c == Head(comps)
         IN  IF c = <<>> \/ c = <<".">> THEN NormComps(Tail(comps), acc)
             ELSE IF c # <<".", ".">> THEN NormComps(Tail(comps), Append(acc, c))
             ELSE IF acc # <<>> THEN NormComps(Tail(comps), SubSeq(acc, 1, Len(acc) - 1))
             ELSE NormComps(Tail(comps), acc)

\* os.path.abspath(s), as FileHandler.__init__ applies it to its filename
Abspath(s) ==
    LET full == IF s # <<>> /\ s[1] = "/" THEN s ELSE Cwd \o <<"/">> \o s
    IN  <<"/">> \o Join(NormComps(Split(full, "/"), <<>>), <<"/">>)

\* os.path.dirname and os.path.basename of an absolute, normalised path
Basename(s) == LET cs == Split(s, "/") IN cs[Len(cs)]
Dirname(s) ==
    LET cs == Split(s, "/")
        d == Join(SubSeq(cs, 1, Len(cs) - 1), <<"/">>)
    IN  IF d = <<>> THEN <<"/">> ELSE d

(***************************************************************************)
(* Configuration: _get_log_dir, _get_log_level                             *)
(***************************************************************************)
\* os.getenv(key, default) on an environment value that may be unset
GetEnv(v, default) == IF v = NoneV THEN default ELSE v

\* a _get_log_dir that ignores a failing mkdir
_get_log_dir_Swallowed(e, mkdirOk) ==
    [exc |-> "", val |-> PathOf(GetEnv(e.LOG_DIR, logsDir))]

\* _get_log_dir: exc is "OSError" when mkdir fails
_get_log_dir(e, mkdirOk) ==
    LET log_dir == PathOf(GetEnv(e.LOG_DIR, logsDir))
    IN  IF mkdirOk THEN [exc |-> "", val |-> log_dir]
        ELSE [exc |-> "OSError", val |-> log_dir]

sINFO == <<"I", "N", "F", "O">>
sDEBUG == <<"D", "E", "B", "U", "G">>
sWARNING == <<"W", "A", "R", "N", "I", "N", "G">>
sWARN == <<"W", "A", "R", "N">>
sERROR == <<"E", "R", "R", "O", "R">>
sCRITICAL == <<"C", "R", "I", "T", "I", "C", "A", "L">>
sFATAL == <<"F", "A", "T", "A", "L">>
sNOTSET == <<"N", "O", "T", "S", "E", "T">>
sBASIC_FORMAT == <<"B", "A", "S", "I", "C", "_", "F", "O", "R", "M", "A", "T">>
s_STYLES == <<"_", "S", "T", "Y", "L", "E", "S">>

\* getattr(logging, name, default): the attributes of the logging module
\* that an upper-cased name can reach
GetAttrLogging(name, default) ==
    CASE name = sCRITICAL -> CRITICAL
      [] name = sFATAL -> CRITICAL
      [] name = sERROR -> ERROR
      [] name = sWARNING -> WARNING
      [] name = sWARN -> WARNING
      [] name = sINFO -> INFO
      [] name = sDEBUG -> DEBUG
      [] name = sNOTSET -> NOTSET
      [] name = sBASIC_FORMAT -> NotALevel
      [] name = s_STYLES -> NotALevel
      [] OTHER -> default

\* _get_log_level
_get_log_level(e) ==
    LET level_name == StrUpper(GetEnv(e.LOG_LEVEL, sINFO))
    IN  GetAttrLogging(level_name, INFO)

\* Logger.setLevel / Handler.setLevel accept an integer only (_checkLevel)
SetLevelRaises(lv) == lv = NotALevel

(***************************************************************************)
(* Bounds and input sets                                                   *)
(***************************************************************************)
MaxTokens == 2
MaxHandlers == 2
MaxRootHandlers == 6
MaxNameLen == 2
MaxLoggers == 1

Branches == {"b1", "b2"}
Users == {NoneV, EmptyStr, alice, bob}

absDir == <<"/", "v">>
dotsDir == <<"/", "v", "/", ".", ".", "/", "w">>
LogDirs == {NoneV, absDir, dotsDir}

LevelSettings ==
    {NoneV, EmptyStr, <<"d", "e", "b", "u", "g">>, sINFO, <<"W", "a", "r", "n", "i", "n", "g">>,
     sERROR, <<"c", "r", "i", "t", "i", "c", "a", "l">>, sWARN, <<"f", "a", "t", "a", "l">>,
     <<"n", "o", "t", "s", "e", "t">>, sBASIC_FORMAT, <<"_", "s", "t", "y", "l", "e", "s">>,
     <<"v", "e", "r", "b", "o", "s", "e">>, <<"4", "0">>}

NameChars == {"a", "/", "\\", ".", "_"}
RECURSIVE StringsUpTo(_)
StringsUpTo(n) ==
    IF n = 0 THEN {<<>>}
    ELSE LET S == StringsUpTo(n - 1)
         IN  S \cup {Append(s, c) : s \in S, c \in NameChars}

(***************************************************************************)
(* State                                                                   *)
(***************************************************************************)
VARIABLES
    env,          \* os.environ: LOG_DIR and LOG_LEVEL, NoneV when unset
    handlers,     \* logger name -> the logger's handlers, in order of addHandler
    loggerLevel,  \* logger name -> the logger's own level
    ctx,          \* branch -> value of _current_user in the branch's Context
    tokens,       \* the contextvars.Token objects created so far
    nested,       \* branch -> every reset so far closed the innermost open scope
    delivered,    \* what the last call wrote: one entry per handler that wrote the record
    ret,          \* the last call and how it ended
    pending,      \* branch -> the call the branch is in the middle of
    inherited,    \* branch -> value of _current_user the branch's Context started with
    done          \* the calls that have returned, and whether a root initialisation failed

vars == <<env, handlers, loggerLevel, ctx, tokens, nested, delivered, ret,
          pending, inherited, done>>

NoRet ==
    [op |-> "", branch |-> "", arg |-> NoneV, logger |-> NoneV, exc |-> "",
     tok |-> 0,
     mkdirOk |-> TRUE, openFail |-> {}, pre |-> <<>>, env |-> [LOG_DIR |-> NoneV, LOG_LEVEL |-> NoneV],
     levelno |-> NOTSET, bad |-> {}, parent |-> "", kind |-> "", preLevel |-> NOTSET]

\* a branch that is not inside a call
Idle == [pc |-> "idle"]

(***************************************************************************)
(* ActorContext: _current_user, set_log_user, reset_log_user               *)
(***************************************************************************)
\* _current_user.get(): the value in the branch's Context, default "-"
CurrentUser(c, b) == IF c[b] = Missing THEN Dash ELSE c[b]

\* set_log_user without the "-" substitution
StoredUser_NoDefault(user) == user

\* the value set_log_user stores
StoredUser(user) == Or(user, Dash)

\* a reset that clears the variable instead of restoring the token's value
RestoredValue_Cleared(tok) == Missing

\* Token.old_value restored by _current_user.reset(token)
RestoredValue(tok) == tok.old

set_log_user(b, user) ==
    /\ Len(tokens) < MaxTokens
    /\ tokens' = Append(tokens, [branch |-> b, old |-> ctx[b], used |-> FALSE,
                                 val |-> StoredUser(user)])
    /\ ctx' = [ctx EXCEPT ![b] = StoredUser(user)]
    /\ ret' = [NoRet EXCEPT !.op = "set_log_user", !.branch = b, !.arg = user]
    /\ delivered' = <<>>
    /\ UNCHANGED <<env, handlers, loggerLevel, nested, pending, inherited, done>>

\* the open scopes of a branch, outermost first
IsOpenIn(b, tok) == tok.branch = b /\ ~tok.used
OpenIds(b) == {i \in 1..Len(tokens) : IsOpenIn(b, tokens[i])}
Innermost(b) == CHOOSE i \in OpenIds(b) : \A j \in OpenIds(b) : j <= i

reset_log_user(b, i) ==
    /\ i \in 1..Len(tokens)
    /\ IF tokens[i].used
       THEN /\ ret' = [NoRet EXCEPT !.op = "reset_log_user", !.branch = b, !.tok = i,
                                    !.exc = "RuntimeError"]
            /\ UNCHANGED <<ctx, tokens, nested>>
       ELSE IF tokens[i].branch # b
       THEN /\ ret' = [NoRet EXCEPT !.op = "reset_log_user", !.branch = b, !.tok = i,
                                    !.exc = "ValueError"]
            /\ UNCHANGED <<ctx, tokens, nested>>
       ELSE /\ ctx' = [ctx EXCEPT ![b] = RestoredValue(tokens[i])]
            /\ tokens' = [tokens EXCEPT ![i].used = TRUE]
            /\ nested' = [nested EXCEPT ![b] = nested[b] /\ i = Innermost(b)]
            /\ ret' = [NoRet EXCEPT !.op = "reset_log_user", !.branch = b, !.tok = i]
    /\ delivered' = <<>>
    /\ UNCHANGED <<env, handlers, loggerLevel, pending, inherited, done>>

(***************************************************************************)
(* Handlers                                                                *)
(***************************************************************************)
MaxBytes == 5 * 1024 * 1024
BackupCount == 5

\* logging.StreamHandler() with level, formatter and _UserContextFilter
StreamHandler(lv) ==
    [kind |-> "stream", baseFilename |-> <<>>, level |-> lv, userFilter |-> TRUE,
     maxBytes |-> 0, backupCount |-> 0]

\* RotatingFileHandler(path, maxBytes=5 MiB, backupCount=5) with level,
\* formatter and _UserContextFilter; baseFilename is os.path.abspath(path)
RotatingFileHandler(path, lv) ==
    [kind |-> "rotating", baseFilename |-> Abspath(PathStr(path)), level |-> lv,
     userFilter |-> TRUE, maxBytes |-> MaxBytes, backupCount |-> BackupCount]

\* an error.log handler at the global level
ErrorFileLevel_Global(lv) == lv

\* the level of the error.log handler
ErrorFileLevel(lv) == ERROR

\* the three handlers of setup_logging, in the order they are added
RootHandlers(log_dir, lv) ==
    <<StreamHandler(lv),
      RotatingFileHandler(PathJoin(log_dir, appLog), lv),
      RotatingFileHandler(PathJoin(log_dir, errorLog), ErrorFileLevel(lv))>>

\* a setup_logging without the early return
RootConfigured_Never(hs) == FALSE

\* if root.handlers: return
RootConfigured(hs) == hs # <<>>

(***************************************************************************)
(* setup_logging                                                           *)
(***************************************************************************)
\* a setup_logging that adds each handler as soon as it is constructed
AttachedOnFailure_Eager(hs, new, openFail) ==
    IF appLog \in openFail THEN hs \o <<new[1]>> ELSE hs \o <<new[1], new[2]>>

\* the root handlers when a RotatingFileHandler constructor raised: the three
\* addHandler calls come after the last constructor, so none has run
AttachedOnFailure(hs, new, openFail) == hs

\* a setup_logging that sets the root level before it looks at root.handlers
SetupOutcome_LevelFirst(hs, rl, e, mkdirOk, openFail) ==
    LET d == _get_log_dir(e, mkdirOk)
        lv == _get_log_level(e)
        new == RootHandlers(d.val, lv)
    IN  IF d.exc # "" THEN [exc |-> d.exc, hs |-> hs, rl |-> rl]
        ELSE IF SetLevelRaises(lv) THEN [exc |-> "ValueError", hs |-> hs, rl |-> rl]
        ELSE IF RootConfigured(hs) THEN [exc |-> "", hs |-> hs, rl |-> lv]
        ELSE IF appLog \in openFail \/ errorLog \in openFail
        THEN [exc |-> "OSError", hs |-> AttachedOnFailure(hs, new, openFail), rl |-> lv]
        ELSE [exc |-> "", hs |-> hs \o new, rl |-> lv]

\* the outcome of setup_logging on root handlers hs and root level rl
SetupOutcome(hs, rl, e, mkdirOk, openFail) ==
    LET d == _get_log_dir(e, mkdirOk)
        lv == _get_log_level(e)
        new == RootHandlers(d.val, lv)
    IN  IF d.exc # "" THEN [exc |-> d.exc, hs |-> hs, rl |-> rl]
        ELSE IF RootConfigured(hs) THEN [exc |-> "", hs |-> hs, rl |-> rl]
        ELSE IF SetLevelRaises(lv) THEN [exc |-> "ValueError", hs |-> hs, rl |-> rl]
        ELSE IF appLog \in openFail \/ errorLog \in openFail
        THEN [exc |-> "OSError", hs |-> AttachedOnFailure(hs, new, openFail), rl |-> lv]
        ELSE [exc |-> "", hs |-> hs \o new, rl |-> lv]

setup_logging(mkdirOk, openFail) ==
    LET out == SetupOutcome(handlers[rootName], loggerLevel[rootName], env, mkdirOk, openFail)
    IN  /\ Len(out.hs) <= MaxRootHandlers
        /\ handlers' = [handlers EXCEPT ![rootName] = out.hs]
        /\ loggerLevel' = [loggerLevel EXCEPT ![rootName] = out.rl]
        /\ ret' = [NoRet EXCEPT !.op = "setup_logging", !.logger = rootName, !.exc = out.exc,
                                !.mkdirOk = mkdirOk, !.openFail = openFail,
                                !.pre = handlers[rootName], !.env = env,
                                !.preLevel = loggerLevel[rootName],
                                !.levelno = IF mkdirOk THEN _get_log_level(env) ELSE NOTSET]
        /\ delivered' = <<>>
        /\ done' = [done EXCEPT !.setup = @ \/ out.exc = "",
                                !.failed = @ \/ (out.exc = "OSError" /\ mkdirOk)]
        /\ UNCHANGED <<env, ctx, tokens, nested, pending, inherited>>

(***************************************************************************)
(* get_logger, _ensure_module_handler                                      *)
(***************************************************************************)
\* a sanitisation that forgets the path separator
SafeName_KeepsSlash(name) == Replace(Replace(name, "\\", "_"), ".", "_")

\* name.replace("/", "_").replace("\\", "_").replace(".", "_")
SafeName(name) == Replace(Replace(Replace(name, "/", "_"), "\\", "_"), ".", "_")

\* log_dir / f"{safe_name}.log"
ModuleLogPath(log_dir, name) == PathJoin(log_dir, SafeName(name) \o dotLog)

\* isinstance(handler, RotatingFileHandler) and
\* handler.baseFilename == str(module_log_path)
SameDestination(handler, module_log_path) ==
    handler.kind = "rotating" /\ handler.baseFilename = PathStr(module_log_path)

\* the outcome of _ensure_module_handler on a logger with handlers hs
EnsureOutcome(hs, name, e, mkdirOk, openOk) ==
    LET d == _get_log_dir(e, mkdirOk)
        lv == _get_log_level(e)
        module_log_path == ModuleLogPath(d.val, name)
    IN  IF d.exc # "" THEN [exc |-> d.exc, hs |-> hs]
        ELSE IF \E i \in 1..Len(hs) : SameDestination(hs[i], module_log_path)
        THEN [exc |-> "", hs |-> hs]
        ELSE IF ~openOk THEN [exc |-> "OSError", hs |-> hs]
        ELSE IF SetLevelRaises(lv) THEN [exc |-> "ValueError", hs |-> hs]
        ELSE [exc |-> "", hs |-> Append(hs, RotatingFileHandler(module_log_path, lv))]

\* logger_name = name or "app"
LoggerName(name) == Or(name, appName)

\* logging.getLogger(logger_name): the named logger, created on first use
\* with level NOTSET and no handlers; "root" names the root logger
HandlersOf(hs, logger_name) == IF logger_name \in DOMAIN hs THEN hs[logger_name] ELSE <<>>

get_logger(name, mkdirOk, openOk) ==
    LET logger_name == LoggerName(name)
        out == EnsureOutcome(HandlersOf(handlers, logger_name), logger_name, env, mkdirOk, openOk)
    IN  /\ Len(out.hs) <= (IF logger_name = rootName THEN MaxRootHandlers ELSE MaxHandlers)
        /\ handlers' = [n \in DOMAIN handlers \cup {logger_name} |->
                           IF n = logger_name THEN out.hs ELSE handlers[n]]
        /\ loggerLevel' = [n \in DOMAIN handlers \cup {logger_name} |->
                           IF n \in DOMAIN loggerLevel THEN loggerLevel[n] ELSE NOTSET]
        /\ ret' = [NoRet EXCEPT !.op = "get_logger", !.arg = name, !.logger = logger_name,
                                !.exc = out.exc, !.mkdirOk = mkdirOk,
                                !.openFail = IF openOk THEN {} ELSE {SafeName(logger_name) \o dotLog},
                                !.pre = HandlersOf(handlers, logger_name), !.env = env,
                                !.levelno = IF mkdirOk THEN _get_log_level(env) ELSE NOTSET]
        /\ delivered' = <<>>
        /\ done' = [done EXCEPT !.loggers = IF out.exc = "" THEN @ \cup {logger_name} ELSE @]
        /\ UNCHANGED <<env, ctx, tokens, nested, pending, inherited>>

(***************************************************************************)
(* Emission: Logger.log, Logger.callHandlers, _UserContextFilter.filter    *)
(***************************************************************************)
\* name.rfind(".", 0, hi), 0-based, -1 when absent
RFindDot(name, hi) ==
    LET I == {k \in 0..(hi - 1) : k < Len(name) /\ name[k + 1] = "."}
    IN  IF I = {} THEN -1 ELSE CHOOSE k \in I : \A j \in I : j <= k

\* the prefixes Manager._fixupParents tries as parents of name, from index i
RECURSIVE ParentCandidates(_, _)
ParentCandidates(name, i) ==
    IF i <= 0 THEN {}
    ELSE {SubSeq(name, 1, i)} \cup ParentCandidates(name, RFindDot(name, i - 1))

\* logger.parent: the longest existing dotted prefix, else the root logger
ParentOf(hs, name) ==
    LET C == ParentCandidates(name, RFindDot(name, Len(name))) \cap DOMAIN hs
    IN  IF C = {} THEN rootName
        ELSE CHOOSE m \in C : \A k \in C : Len(k) <= Len(m)

\* the logger and its ancestors, as callHandlers walks them (propagate is True)
RECURSIVE LoggerChain(_, _)
LoggerChain(hs, name) ==
    IF name = rootName THEN <<rootName>>
    ELSE <<name>> \o LoggerChain(hs, ParentOf(hs, name))

\* Logger.getEffectiveLevel: the first level that is set on the chain
RECURSIVE FirstSetLevel(_, _)
FirstSetLevel(lvls, chain) ==
    IF chain = <<>> THEN NOTSET
    ELSE IF lvls[Head(chain)] # NOTSET THEN lvls[Head(chain)]
    ELSE FirstSetLevel(lvls, Tail(chain))

EffectiveLevel(hs, lvls, name) == FirstSetLevel(lvls, LoggerChain(hs, name))

\* a filter that reads one process-wide cell holding the last value set
FilterUser_Global(c, b) == IF tokens = <<>> THEN Dash ELSE tokens[Len(tokens)].val

\* _UserContextFilter.filter: record.user = _current_user.get(), in the
\* Context of the emitting branch; the record is always admitted
FilterUser(c, b) == CurrentUser(c, b)

\* a filter that drops what is below ERROR
FilterAdmits_ErrorsOnly(levelno) == levelno >= ERROR

\* _UserContextFilter.filter returns True for every record
FilterAdmits(levelno) == TRUE

\* a handler whose emit lets the exception of a failed write escape
EmitRaises_Propagates(h, writeOk) == ~writeOk

\* StreamHandler.emit and RotatingFileHandler.emit catch the exception of a
\* failed write or rollover and pass it to Handler.handleError
EmitRaises(h, writeOk) == FALSE

\* Handler.handle on one handler: the line it writes, if it admits the record
\* and the write succeeds
Written(h, owner, idx, name, levelno, b, bad) ==
    IF levelno >= h.level /\ FilterAdmits(levelno) /\ <<owner, idx>> \notin bad
    THEN <<[dest |-> h.baseFilename, kind |-> h.kind, owner |-> owner, idx |-> idx,
            logger |-> name, levelno |-> levelno, user |-> FilterUser(ctx, b), branch |-> b]>>
    ELSE <<>>

\* the handlers callHandlers visits, in order, as (logger, position) pairs
RECURSIVE HandlerRefs(_, _)
HandlerRefs(hs, chain) ==
    IF chain = <<>> THEN <<>>
    ELSE [i \in 1..Len(hs[Head(chain)]) |-> <<Head(chain), i>>] \o HandlerRefs(hs, Tail(chain))

\* the handler raises out of callHandlers
Escapes(r, levelno, bad) ==
    LET h == handlers[r[1]][r[2]]
    IN  levelno >= h.level /\ FilterAdmits(levelno) /\ EmitRaises(h, r \notin bad)

RECURSIVE WrittenByRefs(_, _, _, _, _)
WrittenByRefs(refs, name, levelno, b, bad) ==
    IF refs = <<>> THEN <<>>
    ELSE LET r == Head(refs)
         IN  IF Escapes(r, levelno, bad) THEN <<>>
             ELSE Written(handlers[r[1]][r[2]], r[1], r[2], name, levelno, b, bad)
                  \o WrittenByRefs(Tail(refs), name, levelno, b, bad)

WrittenByChain(chain, name, levelno, b, bad) ==
    WrittenByRefs(HandlerRefs(handlers, chain), name, levelno, b, bad)

\* the exception logger.log ends in, "" when it returns
EmitExc(refs, levelno, bad) ==
    IF \E k \in 1..Len(refs) : Escapes(refs[k], levelno, bad) THEN "OSError" ELSE ""

\* logger.log(levelno, msg) in branch b on the logger called name, while the
\* writes of the handlers in bad fail
EmitFailing(b, name, levelno, bad) ==
    LET enabled == levelno >= EffectiveLevel(handlers, loggerLevel, name)
        chain == LoggerChain(handlers, name)
    IN  /\ name \in DOMAIN handlers
        /\ delivered' = IF enabled THEN WrittenByChain(chain, name, levelno, b, bad) ELSE <<>>
        /\ ret' = [NoRet EXCEPT !.op = "emit", !.branch = b, !.logger = name,
                                !.levelno = levelno, !.bad = bad,
                                !.exc = IF enabled
                                        THEN EmitExc(HandlerRefs(handlers, chain), levelno, bad)
                                        ELSE ""]
        /\ UNCHANGED <<env, handlers, loggerLevel, ctx, tokens, nested, pending, inherited, done>>

\* logger.log(levelno, msg) when every write succeeds
Emit(b, name, levelno) == EmitFailing(b, name, levelno, {})

(***************************************************************************)
(* The environment                                                         *)
(***************************************************************************)
SetLogDir(d) ==
    /\ env.LOG_DIR # d
    /\ env' = [env EXCEPT !.LOG_DIR = d]
    /\ ret' = [NoRet EXCEPT !.op = "setenv"]
    /\ delivered' = <<>>
    /\ UNCHANGED <<handlers, loggerLevel, ctx, tokens, nested, pending, inherited, done>>

SetLogLevel(l) ==
    /\ env.LOG_LEVEL # l
    /\ env' = [env EXCEPT !.LOG_LEVEL = l]
    /\ ret' = [NoRet EXCEPT !.op = "setenv"]
    /\ delivered' = <<>>
    /\ UNCHANGED <<handlers, loggerLevel, ctx, tokens, nested, pending, inherited, done>>

(***************************************************************************)
(* Specifications                                                          *)
(***************************************************************************)
\* a fresh interpreter: only the root logger, at WARNING, with no handlers
InitLogging ==
    /\ handlers = [n \in {rootName} |-> <<>>]
    /\ loggerLevel = [n \in {rootName} |-> WARNING]
    /\ ctx = [b \in Branches |-> Missing]
    /\ tokens = <<>>
    /\ nested = [b \in Branches |-> TRUE]
    /\ delivered = <<>>
    /\ ret = NoRet
    /\ pending = [b \in Branches |-> Idle]
    /\ inherited = [b \in Branches |-> Missing]
    /\ done = [setup |-> FALSE, failed |-> FALSE, loggers |-> {}]

ActorLevels == {WARNING, ERROR}

\* actors, emission and routing with an absolute log directory
InitActor ==
    /\ env = [LOG_DIR |-> absDir, LOG_LEVEL |-> NoneV]
    /\ InitLogging

NextActor ==
    \/ \E b \in Branches, u \in Users : set_log_user(b, u)
    \/ \E b \in Branches, i \in 1..MaxTokens : reset_log_user(b, i)
    \/ \E b \in Branches, n \in DOMAIN handlers, l \in ActorLevels : Emit(b, n, l)
    \/ setup_logging(TRUE, {})
    \/ get_logger(NoneV, TRUE, TRUE)

SpecActor == InitActor /\ [][NextActor]_vars

(***************************************************************************)
(* Properties of the actor context                                         *)
(***************************************************************************)
\* the actor a branch is in under the stack discipline: the value of its
\* innermost open scope, "-" when it has none
ScopeActor(b) == IF OpenIds(b) = {} THEN Dash ELSE tokens[Innermost(b)].val

\* the values a branch itself has set
SetBy(b) == {tokens[i].val : i \in {j \in 1..Len(tokens) : tokens[j].branch = b}}

\* C2: every line written for a record carries the actor current in the
\* emitting branch at emission time, and never a value that only another
\* branch has set, whatever the interleaving of set, emit and restore.
C2_ActorIsolation ==
    \A k \in 1..Len(delivered) :
        LET d == delivered[k]
        IN  /\ d.user = CurrentUser(ctx, d.branch)
            /\ nested[d.branch] => d.user = ScopeActor(d.branch)
            /\ d.user \in SetBy(d.branch) \cup {Dash}

\* a record of the alice branch is written while bob is current in the other
C2_Witness ==
    /\ ret.op = "emit"
    /\ delivered # <<>>
    /\ delivered[1].user = alice
    /\ \E b \in Branches : b # ret.branch /\ OpenIds(b) # {} /\ ScopeActor(b) = bob

\* C4: after a restore that closes the innermost open scope of a branch whose
\* scopes were all properly nested, the current actor is the one of the
\* enclosing scope, and "-" when the outermost scope was closed.
C4_ScopeRestoration ==
    (ret.op = "reset_log_user" /\ ret.exc = "" /\ nested[ret.branch])
        => CurrentUser(ctx, ret.branch) = ScopeActor(ret.branch)

\* an inner scope was restored and the enclosing scope's actor is current again
C4_Witness ==
    /\ ret.op = "reset_log_user"
    /\ ret.exc = ""
    /\ nested[ret.branch]
    /\ OpenIds(ret.branch) # {}
    /\ tokens[ret.tok].val # ScopeActor(ret.branch)
    /\ ScopeActor(ret.branch) = alice

\* C5: the current actor of every branch is a non-empty string; it is "-"
\* when the branch has no open scope, and "-" right after set_log_user with
\* None or ""; a record emitted then is stamped "-".
IsIdentifier(u) == u # NoneV /\ u # Missing /\ u # EmptyStr

C5_DefaultActor ==
    /\ \A b \in Branches :
        /\ IsIdentifier(CurrentUser(ctx, b))
        /\ (nested[b] /\ OpenIds(b) = {}) => CurrentUser(ctx, b) = Dash
    /\ (ret.op = "set_log_user" /\ ret.arg \in {NoneV, EmptyStr})
        => CurrentUser(ctx, ret.branch) = Dash
    /\ \A k \in 1..Len(delivered) :
        /\ IsIdentifier(delivered[k].user)
        /\ (nested[delivered[k].branch] /\ OpenIds(delivered[k].branch) = {})
            => delivered[k].user = Dash
        /\ (OpenIds(delivered[k].branch) # {} /\ nested[delivered[k].branch]
            /\ tokens[Innermost(delivered[k].branch)].val = Dash)
            => delivered[k].user = Dash

\* a record is written in a branch whose innermost scope was opened with no
\* identifier, inside a scope that had one
C5_Witness ==
    /\ ret.op = "emit"
    /\ delivered # <<>>
    /\ delivered[1].user = Dash
    /\ Cardinality(OpenIds(ret.branch)) = 2
    /\ tokens[Innermost(ret.branch)].val = Dash

(***************************************************************************)
(* Routing: setup_logging, get_logger and emission, with a file system     *)
(* that may refuse mkdir or open                                           *)
(***************************************************************************)
abName == <<"a", ".", "b">>
a_bName == <<"a", "_", "b">>
RouteNames == {NoneV, abName, a_bName}
RouteLevels == {NoneV, sBASIC_FORMAT}
RouteEmitLevels == {INFO, ERROR}

InitRoute ==
    /\ env \in [LOG_DIR : LogDirs, LOG_LEVEL : RouteLevels]
    /\ InitLogging

NextRoute ==
    \/ \E mk \in BOOLEAN, F \in SUBSET {appLog, errorLog} : setup_logging(mk, F)
    \/ \E n \in RouteNames, mk \in BOOLEAN, ok \in BOOLEAN : get_logger(n, mk, ok)
    \/ \E n \in DOMAIN handlers, l \in RouteEmitLevels : Emit("b1", n, l)

SpecRoute == InitRoute /\ [][NextRoute]_vars

(***************************************************************************)
(* Properties of routing                                                   *)
(***************************************************************************)
\* the log directory a setting names, as an absolute path
LogDirOf(e) ==
    CASE e.LOG_DIR = NoneV -> <<"/", "c", "w", "d", "/", "l", "o", "g", "s">>
      [] e.LOG_DIR = absDir -> <<"/", "v">>
      [] e.LOG_DIR = dotsDir -> <<"/", "w">>

\* <log-dir>/<file>
InLogDir(e, file) == LogDirOf(e) \o <<"/">> \o file

\* the file name the specification gives a component name
Neutral(c) == IF c \in {"/", "\\", "."} THEN "_" ELSE c
SanitizedFile(name) == [i \in 1..Len(name) |-> Neutral(name[i])] \o <<".", "l", "o", "g">>
ComponentFile(arg) == SanitizedFile(IF arg = NoneV \/ arg = <<>> THEN <<"a", "p", "p">> ELSE arg)

\* the positions of the file sinks of hs that write to path
SinksOn(hs, path) == {i \in 1..Len(hs) : hs[i].kind = "rotating" /\ hs[i].baseFilename = path}

\* C1: after a get_logger(name) call that returned, the logger has exactly one
\* rotating-file sink on <log-dir>/<sanitized name>.log, and a call that found
\* one attached nothing.
C1_IdempotentComponentSink ==
    (ret.op = "get_logger" /\ ret.exc = "")
        => /\ Cardinality(SinksOn(handlers[ret.logger], InLogDir(env, ComponentFile(ret.arg)))) = 1
           /\ SinksOn(ret.pre, InLogDir(env, ComponentFile(ret.arg))) # {}
                => handlers[ret.logger] = ret.pre

\* exactly the three sinks of the root initialisation
ThreeSinks(hs, e) ==
    /\ Len(hs) = 3
    /\ hs[1].kind = "stream"
    /\ hs[2].kind = "rotating" /\ hs[2].baseFilename = InLogDir(e, appLog)
    /\ hs[3].kind = "rotating" /\ hs[3].baseFilename = InLogDir(e, errorLog)

\* C3: a setup_logging call that returned, on a root logger that had no
\* handlers or exactly the three of an earlier call, leaves the root logger
\* with exactly the console, app.log and error.log handlers.
C3_IdempotentRootInit ==
    (ret.op = "setup_logging" /\ ret.exc = "" /\ (ret.pre = <<>> \/ ThreeSinks(ret.pre, env)))
        => ThreeSinks(handlers[rootName], env)

\* a repeated setup_logging call has returned
C3_Witness ==
    /\ ret.op = "setup_logging"
    /\ ret.exc = ""
    /\ ThreeSinks(ret.pre, env)
    /\ ThreeSinks(handlers[rootName], env)

\* all file sinks, as (logger, position) pairs
FileSinks == {p \in {<<n, i>> : n \in DOMAIN handlers, i \in 1..MaxRootHandlers} :
                 p[2] <= Len(handlers[p[1]]) /\ handlers[p[1]][p[2]].kind = "rotating"}

\* C8: no two file sinks, on any loggers, write to the same file, and one
\* emission writes at most one line to any file.
C8_ExclusiveDestination ==
    /\ \A p \in FileSinks, q \in FileSinks :
        p # q => handlers[p[1]][p[2]].baseFilename # handlers[q[1]][q[2]].baseFilename
    /\ \A j \in 1..Len(delivered), k \in 1..Len(delivered) :
        (j # k /\ delivered[j].kind = "rotating") => delivered[j].dest # delivered[k].dest

\* the component file was missing from the logger before the call
NeedsSink == SinksOn(ret.pre, InLogDir(ret.env, ComponentFile(ret.arg))) = {}

\* C10: a setup_logging or get_logger call whose directory cannot be created,
\* or that has to attach a file sink whose file cannot be opened, ends in an
\* error; a call that returns has left the file sinks it had to attach.
C10_InitFailurePropagates ==
    /\ ret.op \in {"setup_logging", "get_logger"} =>
        /\ ~ret.mkdirOk => ret.exc = "OSError"
        /\ ret.exc # "" => handlers[ret.logger] = ret.pre
    /\ ret.op = "setup_logging" =>
        /\ (ret.pre = <<>> /\ ret.openFail # {}) => ret.exc # ""
        /\ (ret.pre = <<>> /\ ret.exc = "") =>
            /\ SinksOn(handlers[rootName], InLogDir(ret.env, appLog)) # {}
            /\ SinksOn(handlers[rootName], InLogDir(ret.env, errorLog)) # {}
    /\ ret.op = "get_logger" =>
        /\ (NeedsSink /\ ret.openFail # {}) => ret.exc # ""
        /\ ret.exc = "" =>
            SinksOn(handlers[ret.logger], InLogDir(ret.env, ComponentFile(ret.arg))) # {}

\* error.log could not be opened although the directory and app.log could
C10_Witness ==
    /\ ret.op = "setup_logging"
    /\ ret.mkdirOk
    /\ ret.openFail = {errorLog}
    /\ ret.exc = "OSError"
    /\ handlers[rootName] = <<>>

(***************************************************************************)
(* Severity: every level setting, root initialisation and emission         *)
(***************************************************************************)
InitSeverity ==
    /\ env \in [LOG_DIR : {absDir}, LOG_LEVEL : LevelSettings]
    /\ InitLogging

NextSeverity ==
    \/ setup_logging(TRUE, {})
    \/ get_logger(NoneV, TRUE, TRUE)
    \/ \E n \in DOMAIN handlers, l \in FiveLevels : Emit("b1", n, l)

SpecSeverity == InitSeverity /\ [][NextSeverity]_vars

\* the last emission wrote a line to <log-dir>/<file>
InFile(file) == \E k \in 1..Len(delivered) : delivered[k].dest = InLogDir(env, file)

\* a record was emitted on the initialised root logger under one of the five levels
EmittedOnRoot ==
    /\ ret.op = "emit"
    /\ ret.logger = rootName
    /\ ThreeSinks(handlers[rootName], env)
    /\ _get_log_level(env) \in FiveLevels

\* C6 as stated: a record of severity s emitted on the initialised root logger
\* is in app.log exactly when s >= G and in error.log exactly when s is ERROR
\* or CRITICAL, whatever G is.
C6_SeverityFiltering ==
    EmittedOnRoot =>
        /\ InFile(appLog) <=> ret.levelno >= _get_log_level(env)
        /\ InFile(errorLog) <=> ret.levelno \in {ERROR, CRITICAL}

\* C6 as amended: a record of severity s emitted on the initialised root logger
\* is in app.log exactly when s >= G, and in error.log exactly when s is ERROR
\* or CRITICAL and s >= G.
C6_SeverityFilteringAmended ==
    EmittedOnRoot =>
        /\ InFile(appLog) <=> ret.levelno >= _get_log_level(env)
        /\ InFile(errorLog) <=> (ret.levelno \in {ERROR, CRITICAL} /\ ret.levelno >= _get_log_level(env))

\* an ERROR record emitted under G = CRITICAL reached neither file
C6_Witness ==
    /\ EmittedOnRoot
    /\ _get_log_level(env) = CRITICAL
    /\ ret.levelno = ERROR
    /\ ~InFile(appLog)
    /\ ~InFile(errorLog)

\* v is NAME up to the case of its letters
EqualsIgnoringCase(v, NAME) ==
    /\ v # NoneV
    /\ Len(v) = Len(NAME)
    /\ \A i \in 1..Len(NAME) :
        \/ v[i] = NAME[i]
        \/ \E k \in 1..Len(UpperChars) : UpperChars[k] = NAME[i] /\ LowerChars[k] = v[i]

\* the level the specification gives a setting
NamedLevel(v) ==
    IF EqualsIgnoringCase(v, <<"D", "E", "B", "U", "G">>) THEN 10
    ELSE IF EqualsIgnoringCase(v, <<"I", "N", "F", "O">>) THEN 20
    ELSE IF EqualsIgnoringCase(v, <<"W", "A", "R", "N", "I", "N", "G">>) THEN 30
    ELSE IF EqualsIgnoringCase(v, <<"E", "R", "R", "O", "R">>) THEN 40
    ELSE IF EqualsIgnoringCase(v, <<"C", "R", "I", "T", "I", "C", "A", "L">>) THEN 50
    ELSE 20

\* C9: the level a call resolves from the setting is one of the five levels:
\* the named one for a setting that is one of the five names in any case,
\* INFO for every other setting; and the call does not fail on the setting.
C9_LevelResolution ==
    (ret.op \in {"setup_logging", "get_logger"} /\ ret.mkdirOk)
        => /\ ret.levelno \in FiveLevels
           /\ ret.levelno = NamedLevel(ret.env.LOG_LEVEL)
           /\ ret.exc # "ValueError"

(***************************************************************************)
(* Names: get_logger on every short name                                   *)
(***************************************************************************)
abcName == <<"a", "/", "b", ".", "c">>
AllNames == StringsUpTo(MaxNameLen) \cup {NoneV, abcName, <<"a", "\\", "b">>}

InitName ==
    /\ env \in [LOG_DIR : LogDirs, LOG_LEVEL : {NoneV}]
    /\ InitLogging

NextName ==
    \E n \in AllNames :
        /\ Cardinality((DOMAIN handlers \cup {LoggerName(n)}) \ {rootName}) <= MaxLoggers
        /\ get_logger(n, TRUE, TRUE)

SpecName == InitName /\ [][NextName]_vars

\* C7: the file of every sink of a component logger is a direct child of the
\* log directory, named by the component name with '/', '\' and '.' replaced
\* by '_' and ".log" appended; the file name holds no path separator.
C7_NameSanitization ==
    \A n \in DOMAIN handlers \ {rootName} :
        \A i \in 1..Len(handlers[n]) :
            LET f == handlers[n][i].baseFilename
                dir == LogDirOf(env)
                fn == SubSeq(f, Len(dir) + 2, Len(f))
            IN  /\ Len(f) > Len(dir) + 1
                /\ SubSeq(f, 1, Len(dir) + 1) = dir \o <<"/">>
                /\ fn = SanitizedFile(n)
                /\ \A k \in 1..Len(fn) : fn[k] \notin {"/", "\\"}

\* get_logger("a/b.c") has attached a sink on <log-dir>/a_b_c.log
C7_Witness ==
    /\ abcName \in DOMAIN handlers
    /\ handlers[abcName] # <<>>
    /\ handlers[abcName][1].baseFilename
         = LogDirOf(env) \o <<"/", "a", "_", "b", "_", "c", ".", "l", "o", "g">>

(***************************************************************************)
(* Emission while writes fail                                              *)
(***************************************************************************)
EmitNames == {NoneV, abName}

InitEmit ==
    /\ env \in [LOG_DIR : {NoneV, absDir}, LOG_LEVEL : {NoneV}]
    /\ InitLogging

NextEmit ==
    \/ setup_logging(TRUE, {})
    \/ \E n \in EmitNames : get_logger(n, TRUE, TRUE)
    \/ \E n \in DOMAIN handlers, l \in RouteEmitLevels :
          \E bad \in SUBSET {<<o, i>> : o \in {n, rootName}, i \in 1..MaxRootHandlers} :
              /\ \A r \in bad : r[2] <= Len(handlers[r[1]])
              /\ EmitFailing("b1", n, l, bad)

SpecEmit == InitEmit /\ [][NextEmit]_vars

\* the sink at position i of logger owner received the last record
Received(owner, i) ==
    \E k \in 1..Len(delivered) : delivered[k].owner = owner /\ delivered[k].idx = i

\* C11: an emission returns normally whichever writes fail, and every sink of
\* the logger and of the root logger that admits the record and whose own
\* write did not fail has written it.
C11_EmissionFailureContained ==
    ret.op = "emit" =>
        /\ ret.exc = ""
        /\ \A owner \in {ret.logger, rootName} :
            \A i \in 1..Len(handlers[owner]) :
                (/\ ret.levelno >= loggerLevel[rootName]
                 /\ ret.levelno >= handlers[owner][i].level
                 /\ <<owner, i>> \notin ret.bad)
                    => Received(owner, i)

\* the write to the component file failed and app.log still has the record
C11_Witness ==
    /\ ret.op = "emit"
    /\ ret.logger # rootName
    /\ ret.bad = {<<ret.logger, 1>>}
    /\ ret.levelno >= loggerLevel[rootName]
    /\ ~Received(ret.logger, 1)
    /\ \E k \in 1..Len(delivered) :
          delivered[k].owner = rootName /\ delivered[k].dest = InLogDir(env, appLog)

(***************************************************************************)
(* Concurrent callers: setup_logging and get_logger as the steps between   *)
(* which another branch can run                                            *)
(***************************************************************************)
\* get_logger up to the end of the loop over logger.handlers
GetLoggerCheck(b, name) ==
    LET logger_name == LoggerName(name)
        d == _get_log_dir(env, TRUE)
        lv == _get_log_level(env)
        module_log_path == ModuleLogPath(d.val, logger_name)
        hs == HandlersOf(handlers, logger_name)
        found == \E i \in 1..Len(hs) : SameDestination(hs[i], module_log_path)
    IN  /\ pending[b] = Idle
        /\ handlers' = [n \in DOMAIN handlers \cup {logger_name} |->
                           IF n \in DOMAIN handlers THEN handlers[n] ELSE <<>>]
        /\ loggerLevel' = [n \in DOMAIN handlers \cup {logger_name} |->
                           IF n \in DOMAIN loggerLevel THEN loggerLevel[n] ELSE NOTSET]
        /\ pending' = [pending EXCEPT ![b] =
                          IF found THEN Idle
                          ELSE [pc |-> "attach", logger |-> logger_name,
                                path |-> module_log_path, level |-> lv]]
        /\ ret' = IF found
                  THEN [NoRet EXCEPT !.op = "get_logger", !.branch = b, !.arg = name,
                                     !.logger = logger_name, !.pre = hs, !.env = env,
                                     !.levelno = lv]
                  ELSE [NoRet EXCEPT !.op = "step", !.branch = b]
        /\ done' = [done EXCEPT !.loggers = IF found THEN @ \cup {logger_name} ELSE @]
        /\ delivered' = <<>>
        /\ UNCHANGED <<env, ctx, tokens, nested, inherited>>

\* get_logger from the RotatingFileHandler constructor to addHandler and return
GetLoggerAttach(b) ==
    LET p == pending[b]
    IN  /\ p.pc = "attach"
        /\ Len(handlers[p.logger]) <
               (IF p.logger = rootName THEN MaxRootHandlers ELSE MaxHandlers)
        /\ handlers' = [handlers EXCEPT ![p.logger] =
                           Append(@, RotatingFileHandler(p.path, p.level))]
        /\ pending' = [pending EXCEPT ![b] = Idle]
        /\ ret' = [NoRet EXCEPT !.op = "get_logger", !.branch = b, !.logger = p.logger,
                                !.pre = handlers[p.logger], !.env = env, !.levelno = p.level]
        /\ done' = [done EXCEPT !.loggers = @ \cup {p.logger}]
        /\ delivered' = <<>>
        /\ UNCHANGED <<env, loggerLevel, ctx, tokens, nested, inherited>>

\* setup_logging up to the test of root.handlers
SetupCheck(b) ==
    LET d == _get_log_dir(env, TRUE)
        lv == _get_log_level(env)
        found == RootConfigured(handlers[rootName])
    IN  /\ pending[b] = Idle
        /\ pending' = [pending EXCEPT ![b] =
                          IF found THEN Idle
                          ELSE [pc |-> "build", log_dir |-> d.val, level |-> lv]]
        /\ ret' = IF found
                  THEN [NoRet EXCEPT !.op = "setup_logging", !.branch = b, !.logger = rootName,
                                     !.pre = handlers[rootName], !.env = env,
                                     !.preLevel = loggerLevel[rootName], !.levelno = lv]
                  ELSE [NoRet EXCEPT !.op = "step", !.branch = b]
        /\ done' = [done EXCEPT !.setup = @ \/ found]
        /\ delivered' = <<>>
        /\ UNCHANGED <<env, handlers, loggerLevel, ctx, tokens, nested, inherited>>

\* setup_logging from root.setLevel to the construction of the three handlers
SetupBuild(b) ==
    LET p == pending[b]
    IN  /\ p.pc = "build"
        /\ ~SetLevelRaises(p.level)
        /\ loggerLevel' = [loggerLevel EXCEPT ![rootName] = p.level]
        /\ pending' = [pending EXCEPT ![b] =
                          [pc |-> "add", todo |-> RootHandlers(p.log_dir, p.level)]]
        /\ ret' = [NoRet EXCEPT !.op = "step", !.branch = b]
        /\ delivered' = <<>>
        /\ UNCHANGED <<env, handlers, ctx, tokens, nested, inherited, done>>

\* one root.addHandler of setup_logging; the call returns after the third
SetupAdd(b) ==
    LET p == pending[b]
    IN  /\ p.pc = "add"
        /\ Len(handlers[rootName]) < MaxRootHandlers
        /\ handlers' = [handlers EXCEPT ![rootName] = Append(@, Head(p.todo))]
        /\ pending' = [pending EXCEPT ![b] =
                          IF Len(p.todo) = 1 THEN Idle
                          ELSE [pc |-> "add", todo |-> Tail(p.todo)]]
        /\ ret' = IF Len(p.todo) = 1
                  THEN [NoRet EXCEPT !.op = "setup_logging", !.branch = b, !.logger = rootName,
                                     !.env = env]
                  ELSE [NoRet EXCEPT !.op = "step", !.branch = b]
        /\ done' = [done EXCEPT !.setup = @ \/ Len(p.todo) = 1]
        /\ delivered' = <<>>
        /\ UNCHANGED <<env, loggerLevel, ctx, tokens, nested, inherited>>

InitConcurrent ==
    /\ env = [LOG_DIR |-> absDir, LOG_LEVEL |-> NoneV]
    /\ InitLogging

NextConcurrent ==
    \/ \E b \in Branches, n \in EmitNames : GetLoggerCheck(b, n)
    \/ \E b \in Branches : GetLoggerAttach(b)
    \/ \E b \in Branches : SetupCheck(b)
    \/ \E b \in Branches : SetupBuild(b)
    \/ \E b \in Branches : SetupAdd(b)

SpecConcurrent == InitConcurrent /\ [][NextConcurrent]_vars

\* no branch is inside a call
AllReturned == \A b \in Branches : pending[b] = Idle

\* C12: when the concurrent get_logger calls have returned, every logger they
\* were called for has exactly one sink on its component file, and at no time
\* more than one.
C12_AtomicComponentAttach ==
    \A n \in DOMAIN handlers \ {rootName} :
        /\ Cardinality(SinksOn(handlers[n], InLogDir(env, SanitizedFile(n)))) <= 1
        /\ (AllReturned /\ n \in done.loggers)
            => Cardinality(SinksOn(handlers[n], InLogDir(env, SanitizedFile(n)))) = 1

\* C13: the root logger never has more than three sinks, and when the
\* concurrent setup_logging calls have returned it has exactly the three.
C13_AtomicRootInit ==
    /\ Len(handlers[rootName]) <= 3
    /\ (AllReturned /\ done.setup) => ThreeSinks(handlers[rootName], env)

(***************************************************************************)
(* Forked branches: the Context a new branch starts with                   *)
(***************************************************************************)
\* how a branch is started: an asyncio task runs in a copy of the Context of
\* the branch that creates it, a threading.Thread in a new, empty Context
ForkKinds == {"task", "thread"}

\* the value of _current_user in the Context the child starts with
ForkedValue(c, parent, kind) == IF kind = "task" THEN c[parent] ELSE Missing

Unstarted == [pc |-> "unstarted"]

Fork(parent, child, kind) ==
    /\ pending[parent] = Idle
    /\ pending[child] = Unstarted
    /\ pending' = [pending EXCEPT ![child] = Idle]
    /\ ctx' = [ctx EXCEPT ![child] = ForkedValue(ctx, parent, kind)]
    /\ inherited' = [inherited EXCEPT ![child] = ForkedValue(ctx, parent, kind)]
    /\ ret' = [NoRet EXCEPT !.op = "fork", !.branch = child, !.parent = parent,
                            !.kind = kind]
    /\ delivered' = <<>>
    /\ UNCHANGED <<env, handlers, loggerLevel, tokens, nested, done>>

\* one running branch; the other is forked from it
InitFork ==
    /\ env = [LOG_DIR |-> absDir, LOG_LEVEL |-> NoneV]
    /\ handlers = [n \in {rootName} |-> <<>>]
    /\ loggerLevel = [n \in {rootName} |-> WARNING]
    /\ ctx = [b \in Branches |-> Missing]
    /\ tokens = <<>>
    /\ nested = [b \in Branches |-> TRUE]
    /\ delivered = <<>>
    /\ ret = NoRet
    /\ pending = [b \in Branches |-> IF b = "b1" THEN Idle ELSE Unstarted]
    /\ inherited = [b \in Branches |-> Missing]
    /\ done = [setup |-> FALSE, failed |-> FALSE, loggers |-> {}]

NextFork ==
    \/ \E b \in Branches, u \in Users : pending[b] = Idle /\ set_log_user(b, u)
    \/ \E b \in Branches, i \in 1..MaxTokens : pending[b] = Idle /\ reset_log_user(b, i)
    \/ \E p \in Branches, c \in Branches, k \in ForkKinds : Fork(p, c, k)

SpecFork == InitFork /\ [][NextFork]_vars

\* the actor of a branch under the stack discipline, counting the value it
\* started with as its outermost scope
ScopeActorFrom(b) ==
    IF OpenIds(b) # {} THEN tokens[Innermost(b)].val
    ELSE IF inherited[b] = Missing THEN Dash ELSE inherited[b]

\* C14: a branch forked inside a scope starts with the actor current in the
\* forking branch at that moment; afterwards the current actor of each branch
\* is determined by its own scopes and the value it started with, never by a
\* set or restore of the other branch.
C14_ForkInheritsSnapshot ==
    /\ ret.op = "fork" => CurrentUser(ctx, ret.branch) = CurrentUser(ctx, ret.parent)
    /\ \A b \in Branches :
        (pending[b] = Idle /\ nested[b]) => CurrentUser(ctx, b) = ScopeActorFrom(b)

(***************************************************************************)
(* Stamping: handlers built before any actor is set                        *)
(***************************************************************************)
StampEnv == [LOG_DIR |-> absDir, LOG_LEVEL |-> NoneV]

StampLevels == {DEBUG, INFO, ERROR}

\* the state after setup_logging() and get_logger(None), both called while
\* the current actor of every branch was still the default
InitStamp ==
    /\ env = StampEnv
    /\ handlers = [n \in {rootName, appName} |->
                      IF n = rootName
                      THEN SetupOutcome(<<>>, WARNING, StampEnv, TRUE, {}).hs
                      ELSE EnsureOutcome(<<>>, appName, StampEnv, TRUE, TRUE).hs]
    /\ loggerLevel = [n \in {rootName, appName} |->
                      IF n = rootName
                      THEN SetupOutcome(<<>>, WARNING, StampEnv, TRUE, {}).rl
                      ELSE NOTSET]
    /\ ctx = [b \in Branches |-> Missing]
    /\ tokens = <<>>
    /\ nested = [b \in Branches |-> TRUE]
    /\ delivered = <<>>
    /\ ret = NoRet
    /\ pending = [b \in Branches |-> Idle]
    /\ inherited = [b \in Branches |-> Missing]
    /\ done = [setup |-> TRUE, failed |-> FALSE, loggers |-> {appName}]

NextStamp ==
    \/ \E b \in Branches, u \in Users : set_log_user(b, u)
    \/ \E b \in Branches, i \in 1..MaxTokens : reset_log_user(b, i)
    \/ \E b \in Branches, n \in DOMAIN handlers, l \in StampLevels : Emit(b, n, l)

SpecStamp == InitStamp /\ [][NextStamp]_vars

\* the handlers the last record was offered to and whose level it reaches
AdmittingRefs ==
    LET refs == HandlerRefs(handlers, LoggerChain(handlers, ret.logger))
    IN  {refs[k] : k \in {j \in 1..Len(refs) :
                             ret.levelno >= handlers[refs[j][1]][refs[j][2]].level}}

\* C15: every line written for a record carries the actor current in the
\* emitting branch when the record is emitted, the same on every sink; the
\* filter drops no record, so every sink whose level the record reaches
\* writes it.
C15_StampAtEmission ==
    ret.op = "emit" =>
        /\ \A k \in 1..Len(delivered) : delivered[k].user = CurrentUser(ctx, ret.branch)
        /\ \A j, k \in 1..Len(delivered) : delivered[j].user = delivered[k].user
        /\ ret.levelno >= EffectiveLevel(handlers, loggerLevel, ret.logger)
            => \A r \in AdmittingRefs : Received(r[1], r[2])

\* sinks built while the actor was "-" write an INFO record of the alice
\* branch, stamped alice, to the component file, the console and app.log
C15_Witness ==
    /\ ret.op = "emit"
    /\ ret.levelno = INFO
    /\ ret.logger = appName
    /\ Len(delivered) = 3
    /\ \A k \in 1..Len(delivered) : delivered[k].user = alice
    /\ \E b \in Branches : b # ret.branch /\ CurrentUser(ctx, b) = bob

(***************************************************************************)
(* Re-initialisation under a changed environment                           *)
(***************************************************************************)
ReinitDirs == {absDir, dotsDir}
ReinitLevels == {NoneV, sERROR}

InitReinit ==
    /\ env \in [LOG_DIR : ReinitDirs, LOG_LEVEL : ReinitLevels]
    /\ InitLogging

NextReinit ==
    \/ \E d \in ReinitDirs : SetLogDir(d)
    \/ \E l \in ReinitLevels : SetLogLevel(l)
    \/ \E mk \in BOOLEAN : setup_logging(mk, {})
    \/ get_logger(rootName, TRUE, TRUE)

SpecReinit == InitReinit /\ [][NextReinit]_vars

\* C16: a setup_logging call that finds a handler on the root logger leaves
\* the root logger's handlers and level as they were, whatever LOG_DIR and
\* LOG_LEVEL are by then.
C16_ReinitLeavesRootUnchanged ==
    (ret.op = "setup_logging" /\ ret.pre # <<>>)
        => /\ handlers[rootName] = ret.pre
           /\ loggerLevel[rootName] = ret.preLevel

\* setup_logging returned on a root logger initialised under another level
\* and another directory than the environment names now
C16_Witness ==
    /\ ret.op = "setup_logging"
    /\ ret.exc = ""
    /\ Len(ret.pre) = 3
    /\ ret.levelno # loggerLevel[rootName]
    /\ handlers[rootName][2].baseFilename # InLogDir(env, appLog)
    /\ Basename(handlers[rootName][2].baseFilename) = appLog

(***************************************************************************)
(* Component loggers under an initialised root logger                      *)
(***************************************************************************)
BothNames == {NoneV, abName, rootName}
BothLevels == {NoneV, sERROR}
BothEmitLevels == {DEBUG, INFO, ERROR}

InitBoth ==
    /\ env \in [LOG_DIR : {absDir}, LOG_LEVEL : BothLevels]
    /\ InitLogging

NextBoth ==
    \/ setup_logging(TRUE, {})
    \/ \E n \in BothNames : get_logger(n, TRUE, TRUE)
    \/ \E n \in DOMAIN handlers, l \in BothEmitLevels : Emit("b1", n, l)

SpecBoth == InitBoth /\ [][NextBoth]_vars

\* C17: once setup_logging and get_logger(name) have both returned, a record
\* emitted on the logger of that name at or above the configured level is
\* written to <log-dir>/<sanitized name>.log and to <log-dir>/app.log, and a
\* record below the configured level is written nowhere.
C17_ComponentAndGlobalRouting ==
    (ret.op = "emit" /\ done.setup /\ ret.logger \in done.loggers)
        => IF ret.levelno >= _get_log_level(env)
           THEN InFile(SanitizedFile(ret.logger)) /\ InFile(appLog)
           ELSE delivered = <<>>

\* the same routing does hold as long as get_logger was never called with
\* the name "root"
RoutingUnlessRootRequested ==
    (ret.op = "emit" /\ done.setup /\ ret.logger \in done.loggers /\ rootName \notin done.loggers)
        => IF ret.levelno >= _get_log_level(env)
           THEN InFile(SanitizedFile(ret.logger)) /\ InFile(appLog)
           ELSE delivered = <<>>

\* C18: a setup_logging call on a root logger without handlers that raises
\* leaves it without handlers, and a later call that returns on the still
\* empty root logger attaches the console, app.log and error.log handlers.
C18_AllOrNothingAttach ==
    (ret.op = "setup_logging" /\ ret.pre = <<>>)
        => IF ret.exc # ""
           THEN handlers[rootName] = <<>>
           ELSE ThreeSinks(handlers[rootName], env)

\* after a call in which a file handler could not be constructed, a later
\* call found the root logger empty and initialised it in full
C18_Witness ==
    /\ ret.op = "setup_logging"
    /\ ret.exc = ""
    /\ ret.pre = <<>>
    /\ done.failed
    /\ ThreeSinks(handlers[rootName], env)

====
